---- MODULE Spec2Model ----
(***************************************************************************)
(* State-machine model of the ATM banking core in src/main.py: Card (PIN   *)
(* lockout, daily spend counter), Account (balance, transaction log),      *)
(* AccountService (withdraw / deposit / transfer) and ATM (registry,       *)
(* login session).                                                         *)
(*                                                                         *)
(* Strings that the code inspects character by character (card numbers,    *)
(* PINs) are sequences of one-character strings.  Transaction.time is the  *)
(* wall clock at logging time; no code reads it back and it is left out of *)
(* the transaction record.                                                 *)
(***************************************************************************)
EXTENDS Integers, Sequences, FiniteSets, TLC

\* ------------------------------------------------------------------ bounds
\* Most transactions logged, over all accounts, in the runs of the service
\* operations alone.
MaxLog == 3
\* Most transactions logged in the runs of the whole system.
MaxSysLog == 1
\* Saturation point of the history counter of consecutive failed PIN checks.
MaxFails == 3
\* Most cards held, over all accounts, in the runs of the registry.
MaxCards == 3
\* Most digits a card number has beyond 16 in the runs of masked.
MaxExtra == 1

\* ------------------------------------------------------- program constants
MAX_PIN_TRY == 3
daily_limit == 5000000
WITHDRAW_LIMIT == 2000000
\* COMMISSION = 0.01, kept as the divisor of the equivalent integer division
COMMISSION_DIV == 100
\* the step of the amount-shape rule of withdraw (10_000)
WITHDRAW_STEP == 10000

\* ----------------------------------------------------------------- objects
Accounts == {"A1", "A2"}
Cards == {"K1", "K2"}
None == "None"
\* A3 is a further Account object, opened under the number of A2; only the
\* runs of the registry call anything on it
AllAccounts == Accounts \cup {"A3"}

\* Constructor arguments of the objects of the explored universe.
number(a) == IF a = "A1" THEN "ACC-001" ELSE "ACC-002"
owner(a) == IF a = "A1" THEN "Ali" ELSE "Vali"
card_number(c) ==
    IF c = "K1"
    THEN <<"8","6","0","0","1","2","3","4","5","6","7","8","9","0","1","2">>
    ELSE <<"9","8","6","0","1","1","1","1","2","2","2","2","3","3","3","3">>
init_pin(c) == IF c = "K1" THEN <<"1","2","3","4">> ELSE <<"4","3","2","1">>
\* Account.cards after the accounts were set up with add_card
init_cards(a) ==
    IF a = "A1" THEN <<"K1">> ELSE IF a = "A2" THEN <<"K2">> ELSE <<>>

Digits == {"0","1","2","3","4","5","6","7","8","9"}

\* characters outside ASCII for which str.isdigit() is true; the token stands
\* for the one character SUPERSCRIPT TWO
OtherDigits == {"U+00B2"}

\* ------------------------------------------------------------------ inputs
\* Account(number, owner, balance): the opening balances
init_balance(a) == IF a = "A1" THEN 7000000 ELSE 0
WithdrawAmounts == {-10000, 15000, 1000000, 2000000, 2010000}
DepositAmounts == {-20000, 2000000}
TransferAmounts == {-150, 0, 100000}
Notes == {"ijara"}
\* the inputs of the runs of the whole system
SysWithdrawAmounts == {2000000}
SysDepositAmounts == {1000000}
SysTransferAmounts == {100000}
PinInputs == { <<"1","2","3","4">>, <<"4","3","2","1">>,
               <<"1","2","a","4">>, <<"1","2","3">>,
               <<"1","2","U+00B2","4">> }
SysPinInputs == { <<"1","2","3","4">>, <<"4","3","2","1">> }
CardNumberInputs == {card_number(c) : c \in Cards} \cup { <<"0","0","0","0">> }

\* ------------------------------------------------------------------- state
VARIABLES balance, transactions, acards,
          pin, blocked, pin_tries, used_today,
          atm_accounts, atm_cards, current_account, current_card,
          initial, fails, last, indexed, probe

ledger == <<balance, transactions, used_today>>
auth == <<pin, blocked, pin_tries>>
atm == <<atm_accounts, atm_cards, current_account, current_card>>
vars == <<balance, transactions, acards, pin, blocked, pin_tries, used_today,
          atm_accounts, atm_cards, current_account, current_card,
          initial, fails, last, indexed, probe>>

\* ---------------------------------------------------------------- messages
MSG_MULTIPLE == "Summa 10 000 ga karrali bo'lishi kerak"
MSG_FUNDS == "Yetarli mablag' yo'q"
MSG_LIMIT == "Maksimal limit oshdi"
MSG_DAILY == "Kunlik limit tugadi"
MSG_WITHDRAWN == "so'm yechildi"
MSG_COMMISSION == "Komissiya bilan yetarli emas"
MSG_TRANSFERRED == "O'tkazma bajarildi"
MSG_OLD_PIN == "Eski PIN noto'g'ri"
MSG_PIN_SHAPE == "PIN 4 xonali bo'lishi kerak"
MSG_PIN_CHANGED == "PIN muvaffaqiyatli o'zgartirildi"

\* ------------------------------------------------------------------- Card
\* Python slices s[:4] and s[-4:], which clip to the string's length
FirstFour(s) == SubSeq(s, 1, IF Len(s) < 4 THEN Len(s) ELSE 4)
LastFour(s) == SubSeq(s, IF Len(s) < 4 THEN 1 ELSE Len(s) - 3, Len(s))
MASK == <<" ","*","*","*","*"," ","*","*","*","*"," ">>
\* variant: the number is returned as it is
masked_plain(s) == s

\* masked() of a card whose number is s
masked_number(s) == FirstFour(s) \o MASK \o LastFour(s)

masked(c) == masked_number(card_number(c))

\* variant: the limit test forgets what was already spent today
can_spend_stale(c, amount) == amount <= daily_limit

\* variant: the limit itself can no longer be reached
can_spend_strict(c, amount) == used_today[c] + amount < daily_limit

can_spend(c, amount) == used_today[c] + amount <= daily_limit

\* variant: the counter is overwritten instead of increased
spend_replace(c, amount) == [used_today EXCEPT ![c] = amount]

spend(c, amount) == [used_today EXCEPT ![c] = @ + amount]

\* ---------------------------------------------------------------- Account
Transaction(type, amount, bal, card, note) ==
    [type |-> type, amount |-> amount, balance |-> bal, card |-> card,
     note |-> note]

\* variant: a non-positive amount is silently not credited
acc_deposit_positive(bal, a, amount) ==
    [bal EXCEPT ![a] = IF amount > 0 THEN @ + amount ELSE @]

acc_deposit(bal, a, amount) == [bal EXCEPT ![a] = @ + amount]
\* variant: every account is debited
acc_withdraw_all(bal, a, amount) == [x \in DOMAIN bal |-> bal[x] - amount]

acc_withdraw(bal, a, amount) == [bal EXCEPT ![a] = @ - amount]
\* variant: the new entry is put in front of the log
add_transaction_front(txs, a, t) == [txs EXCEPT ![a] = <<t>> \o @]

add_transaction(txs, a, t) == [txs EXCEPT ![a] = Append(@, t)]

RECURSIVE Logged(_, _)
\* number of transactions in the logs txs of the accounts of S
Logged(txs, S) ==
    IF S = {} THEN 0
    ELSE LET a == CHOOSE x \in S : TRUE
         IN  Len(txs[a]) + Logged(txs, S \ {a})

\* ---------------------------------------------------------- AccountService
\* _log reads acc.balance when it is called, i.e. after the mutations made
\* before it
_log(txs, bal, a, ttype, amount, card, note) ==
    add_transaction(txs, a,
        Transaction(ttype, amount, bal[a],
                    IF card = None THEN <<"N","/","A">> ELSE masked(card),
                    note))

\* variant: the fee is rounded down instead of toward zero
fee_floor(amount) == amount \div COMMISSION_DIV

\* int(x) of the float product amount * 0.01: truncation toward zero.  The
\* double product truncates to the same integer as the exact quotient for
\* every |amount| <= 3,000,000 (checked exhaustively against CPython).
fee_of(amount) ==
    IF amount >= 0 THEN amount \div COMMISSION_DIV
    ELSE -((-amount) \div COMMISSION_DIV)

\* variant: the per-transaction cap is tested before the balance
withdraw_reject_swapped(a, amount, c) ==
    IF amount <= 0 \/ amount % WITHDRAW_STEP # 0 THEN MSG_MULTIPLE
    ELSE IF amount > WITHDRAW_LIMIT THEN MSG_LIMIT
    ELSE IF amount > balance[a] THEN MSG_FUNDS
    ELSE IF ~can_spend(c, amount) THEN MSG_DAILY
    ELSE None

\* The first rule of withdraw that rejects the call, None when none does
withdraw_reject(a, amount, c) ==
    IF amount <= 0 \/ amount % WITHDRAW_STEP # 0 THEN MSG_MULTIPLE
    ELSE IF amount > balance[a] THEN MSG_FUNDS
    ELSE IF amount > WITHDRAW_LIMIT THEN MSG_LIMIT
    ELSE IF ~can_spend(c, amount) THEN MSG_DAILY
    ELSE None

\* history: the call made last, its arguments and what it returned
Call(op, a, b, c, amount, ok, msg) ==
    [op |-> op, a |-> a, b |-> b, c |-> c, amount |-> amount, ok |-> ok,
     msg |-> msg, given |-> None]

\* history of a call that checks a PIN: given tells whether the PIN passed
\* in was the card's PIN at the time of the call
PinCall(op, a, c, p, ok, msg) ==
    [op |-> op, a |-> a, b |-> None, c |-> c, amount |-> 0, ok |-> ok,
     msg |-> msg, given |-> IF p = pin[c] THEN "pin" ELSE "other"]

\* the accepted withdrawal: the three mutations and the returned pair
withdraw_apply(a, amount, c) ==
    LET bal == acc_withdraw(balance, a, amount) IN
    /\ balance' = bal
    /\ used_today' = spend(c, amount)
    /\ transactions' = _log(transactions, bal, a, "Pul olish", -amount, c, "")
    /\ last' = Call("withdraw", a, None, c, amount, TRUE, MSG_WITHDRAWN)

\* variant: the card is charged before the daily limit is tested
withdraw_eager(a, amount, c) ==
    LET why == withdraw_reject(a, amount, c) IN
    IF why # None
    THEN /\ last' = Call("withdraw", a, None, c, amount, FALSE, why)
         /\ used_today' = IF why = MSG_DAILY THEN spend(c, amount)
                          ELSE used_today
         /\ UNCHANGED <<balance, transactions>>
    ELSE withdraw_apply(a, amount, c)

withdraw(a, amount, c) ==
    LET why == withdraw_reject(a, amount, c) IN
    IF why # None
    THEN /\ last' = Call("withdraw", a, None, c, amount, FALSE, why)
         /\ UNCHANGED <<balance, transactions, used_today>>
    ELSE withdraw_apply(a, amount, c)

deposit(a, amount) ==
    LET bal == acc_deposit(balance, a, amount) IN
    /\ balance' = bal
    /\ transactions' =
           _log(transactions, bal, a, "Pul qo'yish", amount, None, "")
    /\ last' = Call("deposit", a, None, None, amount, TRUE, "")
    /\ UNCHANGED used_today

transfer(s, r, amount, note) ==
    LET fee == fee_of(amount)
        total == amount + fee
    IN  IF total > balance[s]
        THEN /\ last' = Call("transfer", s, r, None, amount, FALSE,
                             MSG_COMMISSION)
             /\ UNCHANGED <<balance, transactions, used_today>>
        ELSE LET bal1 == acc_withdraw(balance, s, total)
                 bal2 == acc_deposit(bal1, r, amount)
                 txs1 == _log(transactions, bal2, s,
                              "O'tkazma -> " \o owner(r), -total, None, note)
                 txs2 == _log(txs1, bal2, r, "Qabul qilindi", amount, None, "")
             IN  /\ balance' = bal2
                 /\ transactions' = txs2
                 /\ last' = Call("transfer", s, r, None, amount, TRUE,
                                 MSG_TRANSFERRED)
                 /\ UNCHANGED used_today

\* ------------------------------------------------------------ PIN checking
\* The card's fields after verify_pin(p), and the value it returns
\* variant: the PIN is compared without looking at the blocked flag
verify_ok_unguarded(c, p) == p = pin[c]

verify_ok(c, p) == ~blocked[c] /\ p = pin[c]

\* variant: a successful check leaves the counter alone
verify_tries_no_reset(c, p) ==
    IF blocked[c] THEN pin_tries[c]
    ELSE IF p = pin[c] THEN pin_tries[c]
    ELSE pin_tries[c] + 1

verify_tries(c, p) ==
    IF blocked[c] THEN pin_tries[c]
    ELSE IF p = pin[c] THEN 0
    ELSE pin_tries[c] + 1

\* variant: the card is blocked one failed check too late
verify_blocked_late(c, p) ==
    IF blocked[c] THEN TRUE
    ELSE IF p = pin[c] THEN FALSE
    ELSE verify_tries(c, p) > MAX_PIN_TRY

verify_blocked(c, p) ==
    IF blocked[c] THEN TRUE
    ELSE IF p = pin[c] THEN FALSE
    ELSE verify_tries(c, p) >= MAX_PIN_TRY

\* history: failed checks on the card since its last successful one
Count(c, ok) ==
    [fails EXCEPT ![c] = IF ok THEN 0
                         ELSE IF @ < MaxFails THEN @ + 1 ELSE @]

verify_pin(c, p) ==
    /\ pin_tries' = [pin_tries EXCEPT ![c] = verify_tries(c, p)]
    /\ blocked' = [blocked EXCEPT ![c] = verify_blocked(c, p)]
    /\ fails' = Count(c, verify_ok(c, p))

\* str.isdigit(): a non-empty string of characters with the digit property
isdigit(s) == s # <<>> /\ \A i \in 1..Len(s) : s[i] \in Digits \cup OtherDigits

\* new.isdigit() and len(new) == 4
pin_shape_ok(new) == isdigit(new) /\ Len(new) = 4

change_pin(c, old, new) ==
    /\ verify_pin(c, old)
    /\ IF ~verify_ok(c, old)
       THEN /\ last' = PinCall("change_pin", None, c, old, FALSE, MSG_OLD_PIN)
            /\ UNCHANGED pin
       ELSE IF ~pin_shape_ok(new)
       THEN /\ last' = PinCall("change_pin", None, c, old, FALSE,
                               MSG_PIN_SHAPE)
            /\ UNCHANGED pin
       ELSE /\ pin' = [pin EXCEPT ![c] = new]
            /\ last' = PinCall("change_pin", None, c, old, TRUE,
                               MSG_PIN_CHANGED)

\* --------------------------------------------------------------------- ATM
RECURSIVE IndexCardsOnce(_, _, _)
\* variant: a number that is already in the table keeps its entry
IndexCardsOnce(tab, a, cs) ==
    IF cs = <<>> THEN tab
    ELSE IndexCardsOnce(
             IF tab[card_number(Head(cs))] = None
             THEN [tab EXCEPT ![card_number(Head(cs))] = <<Head(cs), a>>]
             ELSE tab,
             a, Tail(cs))

RECURSIVE IndexCards(_, _, _)
\* the loop of register over acc.cards, in list order
IndexCards(tab, a, cs) ==
    IF cs = <<>> THEN tab
    ELSE IndexCards([tab EXCEPT ![card_number(Head(cs))] = <<Head(cs), a>>],
                    a, Tail(cs))

\* history: every (card, account) pair that register has put in self.cards
Indexed(a) == indexed \cup { <<acards[a][i], a>> : i \in 1..Len(acards[a]) }

register(a) ==
    /\ atm_accounts' = [atm_accounts EXCEPT ![number(a)] = a]
    /\ atm_cards' = IndexCards(atm_cards, a, acards[a])
    /\ indexed' = Indexed(a)
    /\ last' = Call("register", a, None, None, 0, TRUE, "")
    /\ UNCHANGED <<current_account, current_card>>

\* variant: a miss also ends the session
login_miss_logout(num) ==
    /\ last' = [Call("login", None, None, None, 0, FALSE, "") EXCEPT !.b = num]
    /\ current_account' = None
    /\ current_card' = None
    /\ UNCHANGED <<pin_tries, blocked, fails>>

\* card_number not in self.cards: return False
login_miss(num) ==
    /\ last' = [Call("login", None, None, None, 0, FALSE, "") EXCEPT !.b = num]
    /\ UNCHANGED <<pin_tries, blocked, fails, current_account, current_card>>

\* variant: the session is set whatever verify_pin answered
login_hit_always(num, p) ==
    LET card == atm_cards[num][1]
        acc == atm_cards[num][2]
    IN  /\ verify_pin(card, p)
        /\ last' = [PinCall("login", acc, card, p, verify_ok(card, p), "")
                       EXCEPT !.b = num]
        /\ current_account' = acc
        /\ current_card' = card

\* the number is in self.cards: the PIN check of the card found decides
login_hit(num, p) ==
    LET card == atm_cards[num][1]
        acc == atm_cards[num][2]
    IN  /\ verify_pin(card, p)
        /\ last' = [PinCall("login", acc, card, p, verify_ok(card, p), "")
                       EXCEPT !.b = num]
        /\ IF verify_ok(card, p)
           THEN /\ current_account' = acc
                /\ current_card' = card
           ELSE UNCHANGED <<current_account, current_card>>

\* the history of a login keeps the card number given in field b
login(num, p) ==
    IF atm_cards[num] = None THEN login_miss(num) ELSE login_hit(num, p)

\* Account.add_card
add_card(a, c) == [acards EXCEPT ![a] = Append(@, c)]

\* -------------------------------------------------------------- the system
\* a card number and a PIN on which masked() has not been applied yet
NoProbe == [number |-> <<>>, pin |-> <<>>, out |-> <<>>]

InitObjects ==
    /\ balance = [a \in AllAccounts |-> init_balance(a)]
    /\ initial = balance
    /\ transactions = [a \in AllAccounts |-> <<>>]
    /\ acards = [a \in AllAccounts |-> init_cards(a)]
    /\ pin = [c \in Cards |-> init_pin(c)]
    /\ blocked = [c \in Cards |-> FALSE]
    /\ pin_tries = [c \in Cards |-> 0]
    /\ used_today = [c \in Cards |-> 0]
    /\ atm_accounts = [n \in {number(a) : a \in AllAccounts} |-> None]
    /\ atm_cards = [n \in CardNumberInputs |-> None]
    /\ current_account = None
    /\ current_card = None
    /\ fails = [c \in Cards |-> 0]
    /\ last = Call("init", None, None, None, 0, TRUE, "")
    /\ indexed = {}

Init == InitObjects /\ probe = NoProbe

\* A call of each operation, with its arguments drawn from the given sets;
\* runs stop growing the logs at n transactions.
WithdrawCall(amounts, n) ==
    \E a \in Accounts, amount \in amounts, c \in Cards :
        /\ withdraw(a, amount, c)
        /\ Logged(transactions', Accounts) <= n
        /\ UNCHANGED <<acards, auth, atm, initial, fails, indexed, probe>>

DepositCall(amounts, n) ==
    \E a \in Accounts, amount \in amounts :
        /\ deposit(a, amount)
        /\ Logged(transactions', Accounts) <= n
        /\ UNCHANGED <<acards, auth, atm, initial, fails, indexed, probe>>

TransferCall(amounts, n) ==
    \E s \in Accounts, r \in Accounts, amount \in amounts, note \in Notes :
        /\ transfer(s, r, amount, note)
        /\ Logged(transactions', Accounts) <= n
        /\ UNCHANGED <<acards, auth, atm, initial, fails, indexed, probe>>

VerifyPinCall(pins) ==
    \E c \in Cards, p \in pins :
        /\ verify_pin(c, p)
        /\ last' = PinCall("verify_pin", None, c, p, verify_ok(c, p), "")
        /\ UNCHANGED <<ledger, acards, pin, atm, initial, indexed, probe>>

ChangePinCall(pins) ==
    \E c \in Cards, old \in pins, new \in pins :
        /\ change_pin(c, old, new)
        /\ UNCHANGED <<ledger, acards, atm, initial, indexed, probe>>

RegisterCall ==
    \E a \in Accounts :
        /\ register(a)
        /\ UNCHANGED <<ledger, acards, auth, initial, fails, probe>>

LoginCall(pins) ==
    \E num \in CardNumberInputs, p \in pins :
        /\ login(num, p)
        /\ UNCHANGED <<ledger, acards, pin, atm_accounts, atm_cards, initial,
                       indexed, probe>>

\* ---- the AccountService operations alone
Withdraw == WithdrawCall(WithdrawAmounts, MaxLog)
Deposit == DepositCall(DepositAmounts, MaxLog)
Transfer == TransferCall(TransferAmounts, MaxLog)

NextLedger ==
    \/ Withdraw
    \/ Deposit
    \/ Transfer

SpecLedger == Init /\ [][NextLedger]_vars

\* ---- withdrawals and transfers alone
NextPay ==
    \/ Withdraw
    \/ Transfer

SpecPay == Init /\ [][NextPay]_vars

\* ---- the PIN and session operations alone
VerifyPin == VerifyPinCall(PinInputs)
ChangePin == ChangePinCall(PinInputs)
Register == RegisterCall
Login == LoginCall(PinInputs)

NextAuth ==
    \/ VerifyPin
    \/ ChangePin
    \/ Register
    \/ Login

SpecAuth == Init /\ [][NextAuth]_vars

\* ---- the registry: accounts take cards, are registered, and are logged in
RECURSIVE Held(_)
\* number of cards in the card lists of the accounts of S
Held(S) ==
    IF S = {} THEN 0
    ELSE LET a == CHOOSE x \in S : TRUE IN Len(acards[a]) + Held(S \ {a})

AddCard ==
    \E a \in AllAccounts, c \in Cards :
        /\ Held(AllAccounts) < MaxCards
        /\ acards' = add_card(a, c)
        /\ last' = Call("add_card", a, None, c, 0, TRUE, "")
        /\ UNCHANGED <<ledger, auth, atm, initial, fails, indexed, probe>>

RegRegister ==
    \E a \in AllAccounts :
        /\ register(a)
        /\ UNCHANGED <<ledger, acards, auth, initial, fails, probe>>

RegLogin == LoginCall(SysPinInputs)

NextRegistry ==
    \/ AddCard
    \/ RegRegister
    \/ RegLogin

SpecRegistry == Init /\ [][NextRegistry]_vars

\* ---- masked() as a function of the card number, for any PIN of the card
Prefixes == { <<"8","6","0","0">>, <<"9","8","6","0">>, <<"1","2","3","4">> }
Suffixes == { <<"9","0","1","2">>, <<"3","3","3","3">>, <<"1","2","3","4">> }
Middle == <<"1","2","3","4","5","6","7","8">>
Extra(n) == [i \in 1..n |-> "0"]
ProbeNumbers ==
    {p \o Middle \o Extra(n) \o s :
        p \in Prefixes, s \in Suffixes, n \in 0..MaxExtra}
ProbePins == { <<"1","2","3","4">>, <<"3","4","5","6">>, <<"8","6","0","0">>,
               <<"0","0","0","0">> }

InitMasked ==
    /\ InitObjects
    /\ probe \in [number : ProbeNumbers, pin : ProbePins, out : {<<>>}]

MaskedCall ==
    /\ probe' = [probe EXCEPT !.out = masked_number(probe.number)]
    /\ UNCHANGED <<ledger, acards, auth, atm, initial, fails, last, indexed>>

NextMasked == MaskedCall

SpecMasked == InitMasked /\ [][NextMasked]_vars

\* ---- withdrawals made only on the pair of the ATM session
SessWithdraw ==
    /\ current_account # None
    /\ \E amount \in SysWithdrawAmounts :
           /\ withdraw(current_account, amount, current_card)
           /\ Logged(transactions', Accounts) <= MaxSysLog
           /\ UNCHANGED <<acards, auth, atm, initial, fails, indexed, probe>>
SessVerifyPin == VerifyPinCall(SysPinInputs)
SessChangePin == ChangePinCall(SysPinInputs)
SessRegister == RegisterCall
SessLogin == LoginCall(SysPinInputs)

NextSession ==
    \/ SessWithdraw
    \/ SessVerifyPin
    \/ SessChangePin
    \/ SessRegister
    \/ SessLogin

SpecSession == Init /\ [][NextSession]_vars

\* ---- the whole system, on short runs
SysWithdraw == WithdrawCall(SysWithdrawAmounts, MaxSysLog)
SysDeposit == DepositCall(SysDepositAmounts, MaxSysLog)
SysTransfer == TransferCall(SysTransferAmounts, MaxSysLog + 1)
SysVerifyPin == VerifyPinCall(SysPinInputs)
SysChangePin == ChangePinCall(SysPinInputs)
SysRegister == RegisterCall
SysLogin == LoginCall(SysPinInputs)

Next ==
    \/ SysWithdraw
    \/ SysDeposit
    \/ SysTransfer
    \/ SysVerifyPin
    \/ SysChangePin
    \/ SysRegister
    \/ SysLogin

Spec == Init /\ [][Next]_vars

\* ================================================================ properties
RECURSIVE SumAmounts(_)
SumAmounts(txs) ==
    IF txs = <<>> THEN 0 ELSE Head(txs).amount + SumAmounts(Tail(txs))

RECURSIVE SumBalances(_, _)
SumBalances(bal, S) ==
    IF S = {} THEN 0
    ELSE LET a == CHOOSE x \in S : TRUE IN bal[a] + SumBalances(bal, S \ {a})

\* the masked form of the two card numbers, written out
MaskedText(c) ==
    IF c = "K1"
    THEN <<"8","6","0","0"," ","*","*","*","*"," ","*","*","*","*"," ",
           "9","0","1","2">>
    ELSE <<"9","8","6","0"," ","*","*","*","*"," ","*","*","*","*"," ",
           "3","3","3","3">>

\* C1: every account's balance is its opening balance plus the sum of the
\* amount fields of its transaction log, whatever calls were made.
C1_BalanceIsLedgerSum ==
    \A a \in Accounts : balance[a] = initial[a] + SumAmounts(transactions[a])

\* reached: a transfer from an account to itself went through and a negative
\* deposit is in some log
C1_Witness ==
    /\ last.op = "transfer" /\ last.ok /\ last.a = last.b
    /\ \E a \in Accounts : \E i \in 1..Len(transactions[a]) :
           transactions[a][i].type = "Pul qo'yish"
           /\ transactions[a][i].amount < 0

\* C2: a rejected withdraw or transfer leaves balances, logs, used_today,
\* pin_tries and the blocked flags exactly as they were.
C2_RejectedChangesNothing ==
    [][ (last'.op \in {"withdraw", "transfer"} /\ ~last'.ok)
        => UNCHANGED <<balance, transactions, used_today, pin_tries, blocked>>
      ]_vars

\* reached: a withdrawal rejected for the daily limit on a card that was used
\* before, from an account that has a log
C2_Witness ==
    /\ last.op = "withdraw" /\ ~last.ok /\ last.msg = MSG_DAILY
    /\ used_today[last.c] > 0
    /\ transactions[last.a] # <<>>

\* C3: withdraw answers with the message of the first violated rule in the
\* order shape, balance, per-transaction cap, daily limit, and succeeds
\* exactly when no rule is violated.
C3_WithdrawFirstViolatedRule ==
    [][ last'.op = "withdraw" =>
        LET amount == last'.amount
            a == last'.a
            c == last'.c
            r1 == amount <= 0 \/ amount % 10000 # 0
            r2 == amount > balance[a]
            r3 == amount > 2000000
            r4 == used_today[c] + amount > 5000000
        IN  /\ r1 => (~last'.ok /\ last'.msg = MSG_MULTIPLE)
            /\ (~r1 /\ r2) => (~last'.ok /\ last'.msg = MSG_FUNDS)
            /\ (~r1 /\ ~r2 /\ r3) => (~last'.ok /\ last'.msg = MSG_LIMIT)
            /\ (~r1 /\ ~r2 /\ ~r3 /\ r4)
                   => (~last'.ok /\ last'.msg = MSG_DAILY)
            /\ last'.ok <=> ~(r1 \/ r2 \/ r3 \/ r4)
      ]_vars

\* reached: an amount above the cap that the balance covers was rejected with
\* the cap message although the daily limit forbids it as well
C3_Witness ==
    /\ last.op = "withdraw" /\ ~last.ok /\ last.msg = MSG_LIMIT
    /\ last.amount <= balance[last.a]
    /\ used_today[last.c] + last.amount > 5000000

\* C4: an accepted withdraw takes amount off the balance, adds amount to the
\* card's used_today and appends one entry with amount -amount and the masked
\* card; the amount is a positive multiple of 10,000, at most 2,000,000 and at
\* most the balance before the call.
C4_WithdrawEffect ==
    [][ (last'.op = "withdraw" /\ last'.ok) =>
        LET amount == last'.amount
            a == last'.a
            c == last'.c
            n == Len(transactions[a])
        IN  /\ balance'[a] = balance[a] - amount
            /\ used_today'[c] = used_today[c] + amount
            /\ Len(transactions'[a]) = n + 1
            /\ SubSeq(transactions'[a], 1, n) = transactions[a]
            /\ transactions'[a][n + 1].amount = -amount
            /\ transactions'[a][n + 1].card = MaskedText(c)
            /\ 0 < amount /\ amount <= 2000000 /\ amount % 10000 = 0
            /\ amount <= balance[a]
      ]_vars

\* reached: a second accepted withdrawal with the same card
C4_Witness ==
    /\ last.op = "withdraw" /\ last.ok
    /\ used_today[last.c] > last.amount
    /\ Len(transactions[last.a]) >= 2

\* C5 as stated: fee = floor(amount * 0.01); the transfer succeeds exactly
\* when amount + fee <= sender balance; then the sender loses amount + fee,
\* the receiver gains amount, each log gets its entry and the balances sum
\* to fee less.
C5_TransferAsStated ==
    [][ last'.op = "transfer" =>
        LET amount == last'.amount
            s == last'.a
            r == last'.b
            fee == amount \div 100
            total == amount + fee
        IN  /\ last'.ok <=> total <= balance[s]
            /\ last'.ok =>
                 /\ balance'[s] = balance[s] - total
                 /\ balance'[r] = balance[r] + amount
                 /\ \E i \in 1..Len(transactions'[s]) :
                        i > Len(transactions[s])
                        /\ transactions'[s][i].amount = -total
                 /\ \E i \in 1..Len(transactions'[r]) :
                        i > Len(transactions[r])
                        /\ transactions'[r][i].amount = amount
                 /\ SumBalances(balance', Accounts)
                        = SumBalances(balance, Accounts) - fee
      ]_vars

\* C5 amended: fee = int(amount * 0.01), rounded toward zero; the transfer
\* succeeds exactly when amount + fee <= sender balance; then a sender other
\* than the receiver loses amount + fee and the receiver gains amount, while
\* an account transferring to itself loses fee; the sender's log gets
\* -(amount + fee), the receiver's log +amount (in that order in one log),
\* and the balances sum to fee less.
C5_TransferEffect ==
    [][ last'.op = "transfer" =>
        LET amount == last'.amount
            s == last'.a
            r == last'.b
            fee == IF amount >= 0 THEN amount \div 100
                   ELSE -((-amount) \div 100)
            total == amount + fee
            ns == Len(transactions[s])
            nr == Len(transactions[r])
        IN  /\ last'.ok <=> total <= balance[s]
            /\ last'.ok =>
                 /\ IF s = r
                    THEN /\ balance'[s] = balance[s] - fee
                         /\ Len(transactions'[s]) = ns + 2
                         /\ transactions'[s][ns + 1].amount = -total
                         /\ transactions'[s][ns + 2].amount = amount
                    ELSE /\ balance'[s] = balance[s] - total
                         /\ balance'[r] = balance[r] + amount
                         /\ Len(transactions'[s]) = ns + 1
                         /\ Len(transactions'[r]) = nr + 1
                         /\ transactions'[s][ns + 1].amount = -total
                         /\ transactions'[r][nr + 1].amount = amount
                 /\ SubSeq(transactions'[s], 1, ns) = transactions[s]
                 /\ SubSeq(transactions'[r], 1, nr) = transactions[r]
                 /\ SumBalances(balance', Accounts)
                        = SumBalances(balance, Accounts) - fee
      ]_vars

\* reached: an account transferred a negative amount that is no multiple of
\* 100 to itself
C5_Witness ==
    /\ last.op = "transfer" /\ last.ok /\ last.a = last.b
    /\ last.amount < 0 /\ last.amount % 100 # 0

\* C6 as stated: from non-negative opening balances, accepted withdrawals
\* and transfers never leave an account with a negative balance.
C6_NoNegativeBalance ==
    \A a \in Accounts : balance[a] >= 0

\* C10: a card's used_today never exceeds its daily limit.
C10_UsedWithinDailyLimit ==
    \A c \in Cards : used_today[c] <= 5000000

\* reached: one card was used against both accounts and a further withdrawal
\* with it was rejected for the daily limit
C10_Witness ==
    /\ last.op = "withdraw" /\ ~last.ok /\ last.msg = MSG_DAILY
    /\ \A a \in Accounts : \E i \in 1..Len(transactions[a]) :
           transactions[a][i].card = MaskedText(last.c)

\* the calls that check a PIN on a card
PinOps == {"verify_pin", "change_pin", "login"}

\* C7: three failed PIN checks in a row block the card; a blocked card stays
\* blocked whatever is called next, and every later PIN check on it, the
\* correct PIN included, fails and leaves pin_tries, blocked and the PIN as
\* they were.
C7_BlockedIsPermanent ==
    /\ [](\A c \in Cards : fails[c] >= 3 => blocked[c])
    /\ [][ \A c \in Cards : blocked[c] =>
             /\ blocked'[c]
             /\ pin_tries'[c] = pin_tries[c]
             /\ pin'[c] = pin[c]
             /\ (last'.op \in PinOps /\ last'.c = c) => ~last'.ok
         ]_vars

\* reached: after money moved, verify_pin with the card's own PIN failed on a
\* card that was already blocked before that call
C7_Witness ==
    /\ last.op = "verify_pin" /\ last.given = "pin" /\ ~last.ok
    /\ blocked[last.c] /\ fails[last.c] >= 3
    /\ \E a \in Accounts : transactions[a] # <<>>

\* C8: while a card is unblocked its pin_tries is the number of failed PIN
\* checks (verify_pin, change_pin's check of the old PIN, login) since the
\* last successful one, 0 right after a success; a blocked card has three
\* failed checks in a row behind it.
C8_TriesCountFailedChecks ==
    \A c \in Cards :
        IF blocked[c] THEN fails[c] >= 3 ELSE pin_tries[c] = fails[c]

\* reached: a card whose PIN was changed (a successful check) has two failed
\* checks since, the last one through login, and is not blocked
C8_Witness ==
    /\ last.op = "login" /\ ~last.ok /\ last.c \in Cards
    /\ pin[last.c] # init_pin(last.c)
    /\ pin_tries[last.c] = 2 /\ ~blocked[last.c]

\* C9: pin_tries stays within 0..3 and the card is blocked exactly when
\* pin_tries is 3.
C9_TriesBoundedAndBlockedAtMax ==
    \A c \in Cards :
        /\ 0 <= pin_tries[c] /\ pin_tries[c] <= 3
        /\ blocked[c] <=> pin_tries[c] = 3

\* reached: a blocked card was checked again, with its own PIN, and its
\* counter is still 3
C9_Witness ==
    \E c \in Cards :
        /\ blocked[c] /\ pin_tries[c] = 3
        /\ last.op \in PinOps /\ last.c = c
        /\ last.given = "pin" /\ ~last.ok

RECURSIVE SumWithdrawn(_, _)
\* what the entries of the log txs that carry the masked card m took out
SumWithdrawn(txs, m) ==
    IF txs = <<>> THEN 0
    ELSE (IF Head(txs).type = "Pul olish" /\ Head(txs).card = m
          THEN -Head(txs).amount ELSE 0) + SumWithdrawn(Tail(txs), m)

RECURSIVE WithdrawnWith(_, _)
\* the sum of the accepted withdrawals made with card c on the accounts of S
WithdrawnWith(c, S) ==
    IF S = {} THEN 0
    ELSE LET a == CHOOSE x \in S : TRUE
         IN  SumWithdrawn(transactions[a], MaskedText(c))
                 + WithdrawnWith(c, S \ {a})

\* C11: a card's used_today is the sum of the amounts of its accepted
\* withdrawals and never decreases; a withdrawal that passes the shape,
\* balance and cap tests is rejected, with the daily-limit message, exactly
\* when used_today + amount > daily_limit.
C11_DailyLimitAccounting ==
    /\ [](\A c \in Cards : used_today[c] = WithdrawnWith(c, Accounts))
    /\ [][ /\ \A c \in Cards : used_today'[c] >= used_today[c]
           /\ last'.op = "withdraw" =>
                LET amount == last'.amount
                    a == last'.a
                    c == last'.c
                    shaped == amount > 0 /\ amount % 10000 = 0
                    passes == shaped /\ amount <= balance[a]
                                     /\ amount <= 2000000
                    over == used_today[c] + amount > 5000000
                IN  /\ passes => (~last'.ok <=> over)
                    /\ passes => (last'.msg = MSG_DAILY <=> over)
                    /\ last'.msg = MSG_DAILY => passes
         ]_vars

\* reached: a card stands exactly at its daily limit after three accepted
\* withdrawals and a further one was rejected for the daily limit
C11_Witness ==
    /\ last.op = "withdraw" /\ ~last.ok /\ last.msg = MSG_DAILY
    /\ used_today[last.c] = 5000000

\* C12: login with a card number that is not in the registry returns false
\* and changes no card's pin_tries, blocked flag or PIN, nor the session, the
\* registry or the ledger.
C12_UnknownCardLogin ==
    [][ (last'.op = "login" /\ atm_cards[last'.b] = None) =>
            /\ ~last'.ok
            /\ UNCHANGED <<pin_tries, blocked, pin, current_account,
                           current_card, atm_accounts, atm_cards, balance,
                           transactions, used_today>>
      ]_vars

\* reached: an unknown number was tried while a session was open and a card
\* had failed checks on its counter
C12_Witness ==
    /\ last.op = "login" /\ atm_cards[last.b] = None
    /\ current_card # None
    /\ \E c \in Cards : pin_tries[c] > 0

\* the card list cs holds the card c
Holds(cs, c) == \E i \in 1..Len(cs) : cs[i] = c

\* C13: login with a registered number returns true exactly when the PIN
\* check of the card found succeeds; then the session becomes the pair found
\* under the number, otherwise the session stays as it was.  So the session
\* is either unset or a pair that register indexed, whose card is in the
\* card list of its account.
C13_LoginSetsSession ==
    /\ [][ (last'.op = "login" /\ atm_cards[last'.b] # None) =>
             LET card == atm_cards[last'.b][1]
                 acc == atm_cards[last'.b][2]
             IN  /\ last'.ok <=> (~blocked[card] /\ last'.given = "pin")
                 /\ last'.ok => /\ current_account' = acc
                                /\ current_card' = card
                 /\ ~last'.ok => UNCHANGED <<current_account, current_card>>
         ]_vars
    /\ [](\/ current_account = None /\ current_card = None
          \/ /\ current_account \in AllAccounts
             /\ current_card \in Cards
             /\ <<current_card, current_account>> \in indexed
             /\ Holds(acards[current_account], current_card))

\* reached: a login failed while a session was open, and the number of the
\* session's card has since been registered again for another account
C13_Witness ==
    /\ last.op = "login" /\ ~last.ok /\ last.c \in Cards
    /\ current_card # None
    /\ atm_cards[card_number(current_card)][2] # current_account

\* C17: register(acc) files acc under its number and, under the number of
\* each card acc holds at that time, a pair of such a card and acc; every
\* other entry of both tables and the session stay as they were, and no other
\* operation writes the tables.  So a lookup yields what the most recent
\* register call for that number filed.
C17_RegisterLastWriteWins ==
    [][ /\ last'.op = "register" =>
             LET a == last'.a IN
             /\ atm_accounts'[number(a)] = a
             /\ \A n \in DOMAIN atm_accounts :
                    n # number(a) => atm_accounts'[n] = atm_accounts[n]
             /\ \A n \in DOMAIN atm_cards :
                    LET own == {i \in 1..Len(acards[a]) :
                                    card_number(acards[a][i]) = n}
                    IN  IF own = {} THEN atm_cards'[n] = atm_cards[n]
                        ELSE \E i \in own : atm_cards'[n] = <<acards[a][i], a>>
             /\ UNCHANGED <<current_account, current_card>>
        /\ last'.op # "register" => UNCHANGED <<atm_accounts, atm_cards>>
      ]_vars

\* reached: A3 was registered over A2, under the account number and under the
\* number of a card that was indexed for A2 before, while a session was open
C17_Witness ==
    /\ last.op = "register" /\ last.a = "A3"
    /\ atm_accounts[number("A3")] = "A3"
    /\ \E c \in Cards : /\ <<c, "A2">> \in indexed
                        /\ atm_cards[card_number(c)] = <<c, "A3">>
    /\ current_card # None

\* the string s is made of exactly four ASCII digits
FourDigits(s) == Len(s) = 4 /\ \A i \in 1..Len(s) : s[i] \in Digits

\* C14: a card's PIN changes only by a change_pin call whose old PIN passes
\* the check on an unblocked card and whose new PIN is exactly 4 digits, and
\* then the PIN is the new one; a change_pin call that returns an error
\* leaves the PIN as it was.
C14_PinChangesOnlyToFourDigits ==
    [][ /\ \A c \in Cards :
              pin'[c] # pin[c] =>
                  /\ last'.op = "change_pin" /\ last'.c = c /\ last'.ok
                  /\ last'.given = "pin" /\ ~blocked[c]
                  /\ FourDigits(pin'[c])
        /\ (last'.op = "change_pin" /\ ~last'.ok) => pin' = pin
      ]_vars

\* the string t occurs in the string s
Contains(s, t) ==
    \E i \in 1..(Len(s) - Len(t) + 1) : SubSeq(s, i, i + Len(t) - 1) = t

\* C15 as stated: for every card number of 16 or more digits and every
\* 4-digit PIN, the masked form contains neither the number nor the PIN.
C15_MaskedHidesNumberAndPin ==
    probe.out # <<>> =>
        /\ ~Contains(probe.out, probe.number)
        /\ ~Contains(probe.out, probe.pin)

\* C15, amended: the masked form never contains the card number, and it
\* contains the PIN exactly when the PIN is the first four or the last four
\* digits of the number.
C15_MaskedHidesNumber ==
    probe.out # <<>> =>
        /\ ~Contains(probe.out, probe.number)
        /\ Contains(probe.out, probe.pin) <=>
               \/ probe.pin = FirstFour(probe.number)
               \/ probe.pin = LastFour(probe.number)

\* reached: a number of more than 16 digits was masked whose last four digits
\* are the PIN, and the PIN also occurs inside the part that is masked out
C15_Witness ==
    /\ probe.out # <<>>
    /\ Len(probe.number) > 16
    /\ probe.pin = LastFour(probe.number)
    /\ probe.pin = SubSeq(probe.number, 5, 8)
    /\ Contains(probe.out, probe.pin)

\* the entries the step adds at the end of the log of account a
Added(a) ==
    SubSeq(transactions'[a], Len(transactions[a]) + 1, Len(transactions'[a]))

\* C16: across every operation the log of every account before it is a prefix
\* of the log after it; an accepted withdraw and a deposit append one entry
\* to the log of the account involved and none elsewhere; an accepted transfer
\* appends one sender entry to the sender's log and one receiver entry to the
\* receiver's log (both to the one log, in this order, when the sender is the
\* receiver) and none elsewhere; a rejected call appends nothing.
C16_LogsAppendOnly ==
    [][ /\ \A a \in Accounts :
              /\ Len(transactions[a]) <= Len(transactions'[a])
              /\ SubSeq(transactions'[a], 1, Len(transactions[a]))
                     = transactions[a]
        /\ (last'.op \in {"withdraw", "deposit"} /\ last'.ok) =>
              /\ Len(Added(last'.a)) = 1
              /\ Added(last'.a)[1].amount =
                     IF last'.op = "withdraw" THEN -last'.amount
                     ELSE last'.amount
              /\ \A a \in Accounts \ {last'.a} : Added(a) = <<>>
        /\ (last'.op = "transfer" /\ last'.ok) =>
              \A a \in Accounts :
                  /\ Len(Added(a)) = (IF a = last'.a THEN 1 ELSE 0)
                                     + (IF a = last'.b THEN 1 ELSE 0)
                  /\ a = last'.a =>
                         /\ Added(a)[1].type = "O'tkazma -> " \o owner(last'.b)
                         /\ Added(a)[1].amount
                                = -(last'.amount + fee_of(last'.amount))
                  /\ a = last'.b =>
                         /\ Added(a)[Len(Added(a))].type = "Qabul qilindi"
                         /\ Added(a)[Len(Added(a))].amount = last'.amount
        /\ ~last'.ok => transactions' = transactions
      ]_vars

\* reached: an accepted transfer from an account to itself added its two
\* entries behind an entry the log already had
C16_Witness ==
    /\ last.op = "transfer" /\ last.ok /\ last.a = last.b
    /\ Len(transactions[last.a]) = 3
    /\ transactions[last.a][3].type = "Qabul qilindi"

\* C18: the balance field of every entry of every log is the account's
\* opening balance plus the sum of the amount fields of the entries of that
\* log up to and including it, whatever withdraw, deposit and transfer calls
\* were made, a transfer from an account to itself included.
C18_SnapshotIsRunningBalance ==
    \A a \in Accounts : \A i \in 1..Len(transactions[a]) :
        transactions[a][i].balance =
            initial[a] + SumAmounts(SubSeq(transactions[a], 1, i))

\* C19: when withdraw is called only on the account and card of the ATM
\* session, with login, verify_pin and change_pin calls in between, no
\* withdraw is accepted on a card that is blocked.
C19_NoWithdrawOnBlockedCard ==
    ~(last.op = "withdraw" /\ last.ok /\ blocked[last.c])

\* C20: verify_pin, change_pin, login and register change no balance, no
\* log and no used_today; withdraw, deposit and transfer change no pin_tries,
\* no blocked flag, no PIN, and neither the registry nor the session; withdraw
\* changes the given account and the given card only, and deposit and
\* transfer change no card.
C20_AuthAndLedgerFrames ==
    [][ /\ last'.op \in {"verify_pin", "change_pin", "login", "register"} =>
              UNCHANGED <<balance, transactions, used_today>>
        /\ last'.op \in {"withdraw", "deposit", "transfer"} =>
              UNCHANGED <<pin_tries, blocked, pin, atm_accounts, atm_cards,
                          current_account, current_card>>
        /\ last'.op = "withdraw" =>
              /\ \A a \in AllAccounts \ {last'.a} :
                     /\ balance'[a] = balance[a]
                     /\ transactions'[a] = transactions[a]
              /\ \A c \in Cards \ {last'.c} : used_today'[c] = used_today[c]
        /\ last'.op \in {"deposit", "transfer"} => UNCHANGED used_today
      ]_vars

\* reached: a withdrawal was accepted while a session was open and the other
\* card was blocked
C20_Witness ==
    /\ last.op = "withdraw" /\ last.ok
    /\ current_card # None
    /\ \E c \in Cards \ {last.c} : blocked[c] /\ pin_tries[c] = MAX_PIN_TRY

====
